---- MODULE Spec2Model ----
(***************************************************************************)
(* Model of the Bitfinex REST client bfx-cpp-api:                          *)
(*   - jsonutils::jsonStrToUsetHandler, the SAX handler that collects the  *)
(*     strings of a flat JSON array (jsonutils.hpp 74-119);                *)
(*   - jsonutils::jsonStrToUset, which runs a rapidjson Reader through a   *)
(*     GenericSchemaValidator into that handler (jsonutils.hpp 121-173);   *)
(*   - BitfinexAPI::getBase64, the payload encoder (BitfinexAPI.hpp        *)
(*     1054-1073);                                                         *)
(*   - BitfinexAPI::getHmacSha384, the request signer (1075-1099);         *)
(*   - BitfinexAPI::WriteCallback, the response collector (1105-1112);     *)
(*   - the client itself: its keys and curl handle, setKeys, the           *)
(*     authenticated endpoints getAccountInfo and cancelOrders, getTonce   *)
(*     and DoPOSTrequest (111-126, 211-215, 330-336, 520-541, 984-1052),   *)
(*     called by one thread or by two;                                     *)
(*   - the constructor's symbols request and its decode (124-126), the     *)
(*     lists it fills (128-179), the public endpoints getTicker,           *)
(*     getFundingBook and getSymbols with DoGETrequest (221-256, 311-316,  *)
(*     957-982), and the validating authenticated endpoints deposit and    *)
(*     newOrder (354-377, 445-482).                                        *)
(*                                                                         *)
(* Strings are sequences of bytes (naturals); 0 is the NUL byte.  A JSON   *)
(* document is a sequence of lexemes, and offsets count lexemes.           *)
(***************************************************************************)
EXTENDS Integers, Sequences, FiniteSets, TLC

VARIABLES
    \* jsonStrToUsetHandler's attributes (jsonutils.hpp 113-118)
    state_, handlerUSet_,
    \* the handler driven directly through its SAX methods
    hEv, hOk, hClosed,
    \* one call of jsonStrToUset
    pc, jsonStr, pos, mode, stack, sstate, valid_, invalidKeyword,
    parseErr, errOffset, uSet, ret, cerr,
    \* bookkeeping of that call, read by the properties only
    uSetAtCall, nSchema, nHandler, rejS, rejH, rejAt, prev,
    \* one call of BitfinexAPI::getBase64
    content, encodedIn, encoded, b64ret, oob,
    \* calls of BitfinexAPI::getHmacSha384 with one key and one content
    signKey, signContent, signDigest, firstDigest, nSigned,
    \* calls of BitfinexAPI::WriteCallback on one target string
    userp, userpAtStart, received, chunkSize, writeRet,
    \* BitfinexAPI's attributes (BitfinexAPI.hpp 871-883), the options set on
    \* the curlPOST_ handle, and the clock
    accessKey_, secretKey_, curlPOST_, curlStatusCode_, bfxApiStatusCode_,
    handle, now,
    \* the threads that call the client: where each one is, the locals of
    \* its call, and the result string it passes
    tpc, call, result,
    \* a call of setKeys under way
    skpc, skArgs,
    \* bookkeeping, read by the properties only: the requests sent, the keys
    \* the client was built with, the key pairs it was ever given, and the
    \* calls the callers may still make
    posted, ctorKeys, installed, callsLeft, keysLeft,
    \* bookkeeping: the response bodies that arrived for each caller's
    \* requests since it last emptied its result string
    got,
    \* the public side of the client: the curlGET_ handle, symbols_ and
    \* result_ (BitfinexAPI.hpp 871-883), and where the constructor is
    curlGET_, symbols_, result_, cpc,
    \* bookkeeping: the last request made through curlGET_, and the last
    \* call of a public endpoint
    lastGet, pub

hvars == <<state_, handlerUSet_, hEv, hOk, hClosed>>
dvars == <<pc, jsonStr, pos, mode, stack, sstate, valid_, invalidKeyword,
           parseErr, errOffset, uSet, ret, cerr,
           uSetAtCall, nSchema, nHandler, rejS, rejH, rejAt, prev>>
evars == <<content, encodedIn, encoded, b64ret, oob>>
svars == <<signKey, signContent, signDigest, firstDigest, nSigned>>
wvars == <<userp, userpAtStart, received, chunkSize, writeRet>>
cvars == <<accessKey_, secretKey_, curlPOST_, curlStatusCode_,
           bfxApiStatusCode_, handle, now, tpc, call, result, skpc, skArgs,
           posted, ctorKeys, installed, callsLeft, keysLeft, got>>
pvars == <<curlGET_, symbols_, result_, cpc, lastGet, pub>>
vars == <<hvars, dvars, evars, svars, wvars, cvars, pvars>>

----------------------------------------------------------------------------
(* Bounds of the model *)

\* longest array, in elements, of the documents decoded
MaxElems == 2

\* longest of the short payloads encoded, in bytes
MaxShort == 3

\* the long payloads encoded are up to MaxOver bytes longer than the buffer
MaxOver == 2

\* the most calls of getHmacSha384 made with the same key and content
MaxSigns == 2

\* the longest response chunk handed to WriteCallback, in bytes
MaxChunk == 2

\* the most response bytes received by a sequence of WriteCallback calls
MaxRecv == 3

\* the most authenticated calls one caller makes
MaxCalls == 2

\* the most calls of setKeys
MaxSetKeys == 1

\* the most milliseconds the clock advances
MaxTicks == 1

\* the most calls of public endpoints
MaxPublic == 2

----------------------------------------------------------------------------
(* Strings *)

\* the byte that ends a C string
NUL == 0

\* the strings "a", "b", "c" and "a\u0000b"
StrA == <<97>>
StrB == <<98>>
StrC == <<99>>
StrANulB == <<97, 0, 98>>

\* the string values that occur in documents
Strings == { StrA, StrB, StrANulB }

\* strlen(): the index of the last byte before the first NUL of s at or
\* after index i
CStrLen(s, i) ==
    LET nuls == { j \in i..Len(s) : s[j] = NUL }
    IN  IF nuls = {} THEN Len(s)
        ELSE (CHOOSE j \in nuls : \A k \in nuls : j <= k) - 1

\* std::string(const char *): the bytes of s up to, not including, its first
\* NUL.  rapidjson hands String() a NUL-terminated buffer and its length;
\* emplace(str) reads the buffer as a C string and ignores the length.
CStr(s) == SubSeq(s, 1, CStrLen(s, 1))

----------------------------------------------------------------------------
(* jsonStrToUsetHandler (jsonutils.hpp 74-119) *)

kExpectArrayStart == "kExpectArrayStart"
kExpectValueOrArrayEnd == "kExpectValueOrArrayEnd"

HResult(ok, st, set) == [ok |-> ok, state_ |-> st, handlerUSet_ |-> set]

StartArray(st, set) ==
    IF st = kExpectArrayStart
    THEN HResult(TRUE, kExpectValueOrArrayEnd, set)
    ELSE HResult(FALSE, st, set)

String(st, set, str) ==
    IF st = kExpectValueOrArrayEnd
    THEN HResult(TRUE, st, set \cup {CStr(str)})
    ELSE HResult(FALSE, st, set)

EndArray(st, set) == HResult(st = kExpectValueOrArrayEnd, st, set)

Default(st, set) == HResult(FALSE, st, set)

\* The events jsonStrToUsetHandler does not override.  rapidjson's
\* BaseReaderHandler sends Key and RawNumber to the derived String(), and
\* every other event to the derived Default().
StringRouted == {"String", "Key", "RawNumber"}
DefaultRouted == {"Null", "Bool", "Number", "StartObject", "EndObject"}
EventTypes == {"StartArray", "EndArray"} \cup StringRouted \cup DefaultRouted

\* an event is the pair of its type and its string, which is empty for the
\* events that carry none
Ev(t, s) == <<t, s>>
EvType(ev) == ev[1]
EvStr(ev) == ev[2]
NoEvent == Ev("none", <<>>)

Events ==
    { Ev(t, <<>>) : t \in {"StartArray", "EndArray"} \cup DefaultRouted }
    \cup { Ev(t, s) : t \in StringRouted, s \in Strings }

\* the handler method an event reaches, applied to the handler's attributes
Handle(st, set, ev) ==
    CASE EvType(ev) = "StartArray" -> StartArray(st, set)
      [] EvType(ev) = "EndArray" -> EndArray(st, set)
      [] EvType(ev) \in StringRouted -> String(st, set, EvStr(ev))
      [] OTHER -> Default(st, set)

----------------------------------------------------------------------------
(* JSON documents, as the lexemes rapidjson's Reader reads *)

\* a lexeme is the pair of its kind and, for a string, its bytes
Lex(k) == <<k, <<>>>>
StrLex(s) == <<"str", s>>
LexKind(lex) == lex[1]
LexStr(lex) == lex[2]
EOF == Lex("eof")

\* what one array element, or a whole document, may be: a string, a number,
\* null, a boolean, something that is no JSON value ("bad"), an array, an
\* object
ElemRenders ==
    { <<StrLex(s)>> : s \in Strings }
    \cup { <<Lex("num")>>, <<Lex("null")>>, <<Lex("bool")>>, <<Lex("bad")>>,
           <<Lex("["), StrLex(StrA), Lex("]")>>,
           <<Lex("{"), StrLex(StrA), Lex(":"), StrLex(StrB), Lex("}")>> }

RECURSIVE Join(_)
\* the elements of es, separated by commas
Join(es) ==
    IF es = <<>> THEN <<>>
    ELSE IF Len(es) = 1 THEN es[1]
    ELSE es[1] \o <<Lex(",")>> \o Join(Tail(es))

ElemSeqs == UNION { [1..n -> ElemRenders] : n \in 0..MaxElems }

ArrayDoc(es) == <<Lex("[")>> \o Join(es) \o <<Lex("]")>>

CompleteDocs == { ArrayDoc(es) : es \in ElemSeqs } \cup ElemRenders

\* the documents decoded: every complete document, every truncation of one,
\* and every complete document followed by one more lexeme
Docs ==
    UNION { { SubSeq(d, 1, n) : n \in 0..Len(d) } : d \in CompleteDocs }
    \cup { d \o <<l>> : d \in CompleteDocs, l \in {Lex("]"), StrLex(StrB)} }

----------------------------------------------------------------------------
(* rapidjson::Reader::Parse, one lexeme at a time (jsonutils.hpp 138, 149) *)

Step(ev, err, m, stk) == [ev |-> ev, err |-> err, mode |-> m, stack |-> stk]

Pop(stk) == SubSeq(stk, 1, Len(stk) - 1)

\* where the reader is after a complete value inside the containers stk
AfterValue(stk) ==
    IF stk = <<>> THEN "end"
    ELSE IF stk[Len(stk)] = "A" THEN "sep" ELSE "osep"

\* ParseValue
ValueLex(m, stk, lex) ==
    CASE LexKind(lex) = "str" -> Step(Ev("String", LexStr(lex)), "None", AfterValue(stk), stk)
      [] LexKind(lex) = "num" -> Step(Ev("Number", <<>>), "None", AfterValue(stk), stk)
      [] LexKind(lex) = "null" -> Step(Ev("Null", <<>>), "None", AfterValue(stk), stk)
      [] LexKind(lex) = "bool" -> Step(Ev("Bool", <<>>), "None", AfterValue(stk), stk)
      [] LexKind(lex) = "[" ->
            Step(Ev("StartArray", <<>>), "None", "first", Append(stk, "A"))
      [] LexKind(lex) = "{" ->
            Step(Ev("StartObject", <<>>), "None", "okey", Append(stk, "O"))
      [] OTHER ->
            Step(NoEvent,
                 IF m = "root" /\ lex = EOF THEN "DocumentEmpty"
                 ELSE "ValueInvalid",
                 m, stk)

\* the reader in mode m, inside the containers stk, reading lex: the event
\* it sends, or the parse error, and where it is afterwards
ReadLex(m, stk, lex) ==
    CASE m \in {"root", "value", "ovalue"} -> ValueLex(m, stk, lex)
      [] m = "first" ->
            IF LexKind(lex) = "]"
            THEN Step(Ev("EndArray", <<>>), "None", AfterValue(Pop(stk)), Pop(stk))
            ELSE ValueLex(m, stk, lex)
      [] m = "sep" ->
            IF LexKind(lex) = "," THEN Step(NoEvent, "None", "value", stk)
            ELSE IF LexKind(lex) = "]"
            THEN Step(Ev("EndArray", <<>>), "None", AfterValue(Pop(stk)), Pop(stk))
            ELSE Step(NoEvent, "ArrayMissCommaOrSquareBracket", m, stk)
      [] m = "okey" ->
            IF LexKind(lex) = "}"
            THEN Step(Ev("EndObject", <<>>), "None", AfterValue(Pop(stk)), Pop(stk))
            ELSE IF LexKind(lex) = "str"
            THEN Step(Ev("Key", LexStr(lex)), "None", "ocolon", stk)
            ELSE Step(NoEvent, "ObjectMissName", m, stk)
      [] m = "okey2" ->
            IF LexKind(lex) = "str"
            THEN Step(Ev("Key", LexStr(lex)), "None", "ocolon", stk)
            ELSE Step(NoEvent, "ObjectMissName", m, stk)
      [] m = "ocolon" ->
            IF LexKind(lex) = ":" THEN Step(NoEvent, "None", "ovalue", stk)
            ELSE Step(NoEvent, "ObjectMissColon", m, stk)
      [] m = "osep" ->
            IF LexKind(lex) = "," THEN Step(NoEvent, "None", "okey2", stk)
            ELSE IF LexKind(lex) = "}"
            THEN Step(Ev("EndObject", <<>>), "None", AfterValue(Pop(stk)), Pop(stk))
            ELSE Step(NoEvent, "ObjectMissCommaOrCurlyBracket", m, stk)
      [] OTHER -> \* m = "end"
            IF lex = EOF THEN Step(NoEvent, "None", "finished", stk)
            ELSE Step(NoEvent, "DocumentRootNotSingular", m, stk)

\* the lexeme at offset p of doc (offsets start at 0)
LexAt(doc, p) == IF p < Len(doc) THEN doc[p + 1] ELSE EOF

\* TerminationOn gone wrong: the reader goes on after its handler returned
\* false
TerminationOn_never(ok) == "None"

\* the parse error the reader raises when its handler returns ok
TerminationOn(ok) == IF ok THEN "None" ELSE "Termination"

----------------------------------------------------------------------------
(* The schema doc/definitions.json#/flatJsonSchema as an automaton over the
   events: the top-level value is an array and every element is a string *)

SchemaAccepts(ss, ev) ==
    \/ ss = "sRoot" /\ EvType(ev) = "StartArray"
    \/ ss = "sItems" /\ EvType(ev) \in {"String", "EndArray"}

SchemaNext(ss, ev) ==
    CASE EvType(ev) = "StartArray" -> "sItems"
      [] EvType(ev) = "EndArray" -> "sDone"
      [] OTHER -> ss

----------------------------------------------------------------------------
(* rapidjson::GenericSchemaValidator over the handler (jsonutils.hpp 135) *)

VResult(ok, ss, kw, sOk, called, h) ==
    [ok |-> ok, sstate |-> ss, keyword |-> kw, schemaOk |-> sOk,
     called |-> called, state_ |-> h.state_, handlerUSet_ |-> h.handlerUSet_]

\* One event through the validator: nothing once it is invalid; else the
\* schema first, and the output handler only for an event the schema
\* accepts; the validator stays valid iff both accepted.
Validate(valid, ss, st, set, ev) ==
    IF ~valid
    THEN VResult(FALSE, ss, "none", FALSE, FALSE, HResult(FALSE, st, set))
    ELSE IF ~SchemaAccepts(ss, ev)
    THEN VResult(FALSE, ss, "type", FALSE, FALSE, HResult(FALSE, st, set))
    ELSE LET h == Handle(st, set, ev)
         IN  VResult(h.ok, SchemaNext(ss, ev), "none", TRUE, TRUE, h)

----------------------------------------------------------------------------
(* jsonStrToUset (jsonutils.hpp 121-173) *)

noError == "noError"
jsonStrToUSetError == "jsonStrToUSetError"

NoDiag == [offset |-> 0, code |-> "None", schema |-> FALSE, keyword |-> "none"]
NoOutcome == [kind |-> "none", ret |-> noError]

\* ReturnedUSet gone wrong: the sets are swapped before the parse result is
\* looked at
ReturnedUSet_always(parseOk, u, h) == h

\* the caller's set after the call: swapped with the handler's on success only
ReturnedUSet(parseOk, u, h) == IF parseOk THEN h ELSE u

\* ReturnedCode gone wrong: the result of reader.Parse is not looked at
ReturnedCode_ignored(parseOk) == noError

ReturnedCode(parseOk) == IF parseOk THEN noError ELSE jsonStrToUSetError

\* how the call that has returned ended, and what it gave the caller
Kind ==
    CASE parseErr = "None" -> "ok"
      [] parseErr = "Termination" /\ rejS -> "schema"
      [] parseErr = "Termination" -> "handler"
      [] OTHER -> "malformed"

Outcome == [kind |-> Kind, ret |-> ret]

\* jsonStrToUset(uSet, doc) is entered: lines 124-145
Enter(doc) ==
    /\ pc' = "parsing"
    /\ jsonStr' = doc
    /\ pos' = 0
    /\ mode' = "root"
    /\ stack' = <<>>
    /\ state_' = kExpectArrayStart
    /\ handlerUSet_' = {}
    /\ sstate' = "sRoot"
    /\ valid_' = TRUE
    /\ invalidKeyword' = "none"
    /\ parseErr' = "None"
    /\ errOffset' = 0
    /\ cerr' = NoDiag
    /\ uSetAtCall' = uSet
    /\ nSchema' = 0
    /\ nHandler' = 0
    /\ rejS' = FALSE
    /\ rejH' = FALSE
    /\ rejAt' = -1
    /\ UNCHANGED <<uSet, ret, prev, hEv, hOk, hClosed, evars, svars, wvars, cvars, pvars>>

\* a caller calls jsonStrToUset with some document
Call ==
    /\ pc = "idle"
    /\ \E doc \in Docs : Enter(doc)

\* reader.Parse(ss, validator) reads the next lexeme: line 149.  A parse
\* error, or an event that the validator answers with false, ends the parse
\* at that lexeme; the error offset is the offset of that lexeme (rapidjson
\* counts bytes, and reports the end of a rejected string, literal or
\* bracket and the start of a rejected number).
ReaderStep ==
    /\ pc = "parsing"
    /\ parseErr = "None"
    /\ mode # "finished"
    /\ LET lex == LexAt(jsonStr, pos)
           r == ReadLex(mode, stack, lex)
           v == Validate(valid_, sstate, state_, handlerUSet_, r.ev)
           sent == r.err = "None" /\ r.ev # NoEvent
           err == IF sent THEN TerminationOn(v.ok) ELSE r.err
       IN  /\ parseErr' = err
           /\ errOffset' = IF err = "None" THEN errOffset ELSE pos
           /\ pos' = IF err = "None" /\ lex # EOF THEN pos + 1 ELSE pos
           /\ mode' = IF err = "None" THEN r.mode ELSE mode
           /\ stack' = IF err = "None" THEN r.stack ELSE stack
           /\ IF sent
              THEN /\ sstate' = v.sstate
                   /\ valid_' = v.ok
                   /\ invalidKeyword' = IF v.ok THEN invalidKeyword ELSE v.keyword
                   /\ state_' = v.state_
                   /\ handlerUSet_' = v.handlerUSet_
                   /\ nSchema' = nSchema + 1
                   /\ nHandler' = IF v.called THEN nHandler + 1 ELSE nHandler
                   /\ rejS' = (rejS \/ ~v.schemaOk)
                   /\ rejH' = (rejH \/ (v.called /\ ~v.ok))
                   /\ rejAt' = IF ~v.ok /\ rejAt = -1 THEN pos ELSE rejAt
              ELSE UNCHANGED <<sstate, valid_, invalidKeyword, state_,
                               handlerUSet_, nSchema, nHandler, rejS, rejH, rejAt>>
    /\ UNCHANGED <<pc, jsonStr, uSet, ret, cerr, uSetAtCall, prev,
                   hEv, hOk, hClosed, evars, svars, wvars, cvars, pvars>>

\* the parse has ended: lines 149-172
Return ==
    /\ pc = "parsing"
    /\ parseErr # "None" \/ mode = "finished"
    /\ LET parseOk == parseErr = "None"
       IN  /\ cerr' = IF parseOk THEN cerr
                      ELSE [offset |-> errOffset, code |-> parseErr,
                            schema |-> ~valid_,
                            keyword |-> IF valid_ THEN "none" ELSE invalidKeyword]
           /\ uSet' = ReturnedUSet(parseOk, uSet, handlerUSet_)
           /\ handlerUSet_' = IF parseOk THEN uSet ELSE handlerUSet_
           /\ ret' = ReturnedCode(parseOk)
    /\ pc' = "returned"
    /\ UNCHANGED <<jsonStr, pos, mode, stack, sstate, valid_, invalidKeyword,
                   parseErr, errOffset, state_, uSetAtCall, nSchema, nHandler,
                   rejS, rejH, rejAt, prev, hEv, hOk, hClosed, evars, svars, wvars, cvars, pvars>>

\* the call is over: its handler, validator, reader and stream are destroyed,
\* and the caller is left with the returned code and its set
Leave ==
    /\ pc = "returned"
    /\ pc' = "idle"
    /\ prev' = Outcome
    /\ jsonStr' = <<>>
    /\ pos' = 0
    /\ mode' = "root"
    /\ stack' = <<>>
    /\ state_' = kExpectArrayStart
    /\ handlerUSet_' = {}
    /\ sstate' = "sRoot"
    /\ valid_' = TRUE
    /\ invalidKeyword' = "none"
    /\ parseErr' = "None"
    /\ errOffset' = 0
    /\ cerr' = NoDiag
    /\ uSetAtCall' = uSet
    /\ nSchema' = 0
    /\ nHandler' = 0
    /\ rejS' = FALSE
    /\ rejH' = FALSE
    /\ rejAt' = -1
    /\ UNCHANGED <<uSet, ret, hEv, hOk, hClosed, evars, svars, wvars, cvars, pvars>>

----------------------------------------------------------------------------
(* jsonStrToUsetHandler's SAX methods called directly *)

Deliver(ev) ==
    LET h == Handle(state_, handlerUSet_, ev)
    IN  /\ state_' = h.state_
        /\ handlerUSet_' = h.handlerUSet_
        /\ hEv' = ev
        /\ hOk' = h.ok
        /\ hClosed' = (hClosed \/ (EvType(ev) = "EndArray" /\ h.ok))
        /\ UNCHANGED <<dvars, evars, svars, wvars, cvars, pvars>>

CallStartArray == Deliver(Ev("StartArray", <<>>))
CallEndArray == Deliver(Ev("EndArray", <<>>))
CallString == \E s \in Strings : Deliver(Ev("String", s))
CallKey == \E s \in Strings : Deliver(Ev("Key", s))
CallRawNumber == \E s \in Strings : Deliver(Ev("RawNumber", s))
CallDefault == \E t \in DefaultRouted : Deliver(Ev(t, <<>>))

----------------------------------------------------------------------------
(* BitfinexAPI::getBase64 (BitfinexAPI.hpp 1054-1073) *)

\* byte buffer[1024]
BufSize == 1024

Bytes == {0, 65, 255}

\* the payloads encoded: every short one, and long ones around BufSize
Payloads ==
    UNION { [1..n -> Bytes] : n \in 0..MaxShort }
    \cup { [i \in 1..n |-> b] : n \in BufSize - 1..BufSize + MaxOver, b \in Bytes }

\* B64Char gone wrong: an alphabet whose last two characters are the same
B64Char_plus(i) ==
    IF i < 26 THEN 65 + i
    ELSE IF i < 52 THEN 97 + (i - 26)
    ELSE IF i < 62 THEN 48 + (i - 52)
    ELSE 43

\* the character of the base64 alphabet for the 6-bit value i
B64Char(i) ==
    IF i < 26 THEN 65 + i
    ELSE IF i < 52 THEN 97 + (i - 26)
    ELSE IF i < 62 THEN 48 + (i - 52)
    ELSE IF i = 62 THEN 43 ELSE 47

B64Pad == 61

ByteAt(s, i) == IF i <= Len(s) THEN s[i] ELSE 0

\* CryptoPP::Base64Encoder without line breaks: 3 bytes to 4 characters,
\* the last group padded with '='
Base64Encode(s) ==
    [k \in 1..4 * ((Len(s) + 2) \div 3) |->
        LET g == (k - 1) \div 4
            j == (k - 1) % 4
            b1 == ByteAt(s, 3 * g + 1)
            b2 == ByteAt(s, 3 * g + 2)
            b3 == ByteAt(s, 3 * g + 3)
        IN  CASE j = 0 -> B64Char(b1 \div 4)
              [] j = 1 -> B64Char((b1 % 4) * 16 + b2 \div 16)
              [] j = 2 -> IF 3 * g + 2 > Len(s) THEN B64Pad
                          ELSE B64Char((b2 % 16) * 4 + b3 \div 64)
              [] OTHER -> IF 3 * g + 3 > Len(s) THEN B64Pad
                          ELSE B64Char(b3 % 64)]

\* the bytes written past the end of buffer by the copy loop, lines 1062-1065
Overflow(c) == IF Len(c) > BufSize THEN Len(c) - BufSize ELSE 0

\* getBase64(c, enc): what it returns and what the caller's string then
\* holds.  With a payload that fits, the loop copies
\* it into the zeroed buffer and its encoding is appended to the caller's
\* string.  With a longer one the loop writes past the buffer and the
\* encoder reads past it, which is undefined: the call may crash, or return
\* 0 having encoded the payload, or return 0 having encoded the first
\* BufSize bytes and whatever the memory after the buffer then held.
B64Outcomes(c, enc) ==
    IF Len(c) <= BufSize
    THEN { [ret |-> "0", encoded |-> enc \o Base64Encode(c)] }
    ELSE { [ret |-> "crash", encoded |-> enc] }
         \cup { [ret |-> "0",
                 encoded |-> enc \o Base64Encode(SubSeq(c, 1, BufSize) \o tail)] :
                 tail \in [1..Overflow(c) -> Bytes]
                          \cup { SubSeq(c, BufSize + 1, Len(c)) } }

\* getBase64(content, encoded) is called
getBase64 ==
    /\ b64ret = "none"
    /\ oob' = Overflow(content)
    /\ \E o \in B64Outcomes(content, encodedIn) :
          /\ b64ret' = o.ret
          /\ encoded' = o.encoded
    /\ UNCHANGED <<content, encodedIn, hvars, dvars, svars, wvars, cvars, pvars>>

----------------------------------------------------------------------------
(* BitfinexAPI::getHmacSha384 (BitfinexAPI.hpp 1075-1099) *)

\* the size in bytes of a SHA384 digest
DigestSize == 48

RECURSIVE Mix(_, _, _)
\* a polynomial hash of s[lo..hi], and the weight of a string of that length
Mix(s, lo, hi) ==
    IF lo > hi THEN [h |-> 0, p |-> 1]
    ELSE IF lo = hi THEN [h |-> (s[lo] + 1) % 32749, p |-> 257]
    ELSE LET mid == (lo + hi) \div 2
             l == Mix(s, lo, mid)
             r == Mix(s, mid + 1, hi)
         IN  [h |-> (l.h * r.p + r.h) % 32749, p |-> (l.p * r.p) % 32749]

\* HMAC<SHA384> hmac(byteKey, byteKey.size()) over content, lines 1092-1094.
\* CryptoPP's HMAC-SHA384 is stood in for by a keyed hash of DigestSize
\* bytes that is a function of the key and of the content, and that tells
\* apart the keys and the messages that occur here, as HMAC-SHA384 does up
\* to collisions.
HmacSha384(key, msg) ==
    LET k == Mix(key, 1, Len(key)).h
        c == Mix(msg, 1, Len(msg)).h
        h == (k * 251 + c * 7 + Len(key) * 13 + Len(msg)) % 32749
    IN  [i \in 1..DigestSize |-> (h + i * (h \div 256 + 1)) % 256]

\* the character HexEncoder writes for the 4-bit value v: 0-9, A-F
HexDigit(v) == IF v < 10 THEN 48 + v ELSE 55 + v

\* HexEncoder, line 1095: two characters for each byte
HexEncoder(mac) ==
    [k \in 1..2 * Len(mac) |->
        IF k % 2 = 1 THEN HexDigit(mac[(k + 1) \div 2] \div 16)
        ELSE HexDigit(mac[k \div 2] % 16)]

\* ::tolower, line 1096
ToLower(c) == IF c >= 65 /\ c <= 90 THEN c + 32 ELSE c

\* Clear gone wrong: the digest is appended to what the string held
Clear_forgotten(digest) == digest

\* digest.clear(), line 1090
Clear(digest) == <<>>

\* getHmacSha384(key, content, digest): the digest string after the call
getHmacSha384(key, msg, digest) ==
    LET hex == HexEncoder(HmacSha384(key, msg))
    IN  Clear(digest) \o [k \in 1..Len(hex) |-> ToLower(hex[k])]

\* getHmacSha384(signKey, signContent, signDigest) is called
CallSign ==
    /\ nSigned < MaxSigns
    /\ signDigest' = getHmacSha384(signKey, signContent, signDigest)
    /\ firstDigest' = IF nSigned = 0 THEN signDigest' ELSE firstDigest
    /\ nSigned' = nSigned + 1
    /\ UNCHANGED <<signKey, signContent, hvars, dvars, evars, wvars, cvars, pvars>>

----------------------------------------------------------------------------
(* BitfinexAPI::WriteCallback (BitfinexAPI.hpp 1105-1112) *)

\* the bytes of a response, and of the memory that follows a chunk
WBytes == {0, 97, 98}

\* the chunks libcurl hands over: size * nmemb bytes, not NUL-terminated
Chunks == UNION { [1..n -> WBytes] : n \in 1..MaxChunk }

\* what the memory after a chunk holds before its first NUL
Afters == { <<>>, <<98>> }

\* WriteCallback(response, size, nmemb, userp), libcurl having size * nmemb
\* bytes of response at chunk and the bytes mem after them:
\* append(static_cast<char*>(response)) appends the C string that starts at
\* response, which ends at the first NUL at or after it and not after
\* size * nmemb bytes.
WriteCallbackAppends(chunk, mem) == CStr(chunk \o mem)

\* libcurl calls WriteCallback with one more chunk of the response
WriteCallback ==
    \E chunk \in Chunks, mem \in Afters :
        /\ Len(received) + Len(chunk) <= MaxRecv
        /\ userp' = userp \o WriteCallbackAppends(chunk, mem)
        /\ received' = received \o chunk
        /\ chunkSize' = Len(chunk)
        /\ writeRet' = Len(chunk)
        /\ UNCHANGED <<userpAtStart, hvars, dvars, evars, svars, cvars, pvars>>

----------------------------------------------------------------------------
(* BitfinexAPI: construction, setKeys, authenticated endpoints and
   DoPOSTrequest (BitfinexAPI.hpp 111-126, 211-215, 330-336, 520-541,
   984-1033, 1044-1052) *)

\* {"request":"/v1/account_infos","nonce":"
ReqAccountInfos ==
    <<123, 34, 114, 101, 113, 117, 101, 115, 116, 34, 58, 34, 47, 118, 49,
      47, 97, 99, 99, 111, 117, 110, 116, 95, 105, 110, 102, 111, 115, 34, 44,
      34, 110, 111, 110, 99, 101, 34, 58, 34>>

\* {"request":"/v1/order/cancel/multi","nonce":"
ReqCancelMulti ==
    <<123, 34, 114, 101, 113, 117, 101, 115, 116, 34, 58, 34, 47, 118, 49,
      47, 111, 114, 100, 101, 114, 47, 99, 97, 110, 99, 101, 108, 47, 109,
      117, 108, 116, 105, 34, 44, 34, 110, 111, 110, 99, 101, 34, 58, 34>>

\* , "order_ids":[
OrderIdsOpen ==
    <<44, 32, 34, 111, 114, 100, 101, 114, 95, 105, 100, 115, 34, 58, 91>>

\* X-BFX-APIKEY:
HdrApiKey == <<88, 45, 66, 70, 88, 45, 65, 80, 73, 75, 69, 89, 58>>

\* X-BFX-PAYLOAD:
HdrPayload == <<88, 45, 66, 70, 88, 45, 80, 65, 89, 76, 79, 65, 68, 58>>

\* X-BFX-SIGNATURE:
HdrSignature ==
    <<88, 45, 66, 70, 88, 45, 83, 73, 71, 78, 65, 84, 85, 82, 69, 58>>

RECURSIVE to_string(_)
\* std::to_string of a non-negative integer: its decimal digits
to_string(n) ==
    IF n < 10 THEN <<48 + n>> ELSE to_string(n \div 10) \o <<48 + (n % 10)>>

RECURSIVE JoinIds(_, _, _)
\* to_string of the ids lo..hi of ids, with "," between them, lines 530-537
JoinIds(ids, lo, hi) ==
    IF lo = hi THEN to_string(ids[lo])
    ELSE LET mid == (lo + hi) \div 2
         IN  JoinIds(ids, lo, mid) \o <<44>> \o JoinIds(ids, mid + 1, hi)

\* the params getAccountInfo builds around the nonce, lines 332-334
AccountInfoParams(nonce) == ReqAccountInfos \o nonce \o <<34>> \o <<125>>

\* the params cancelOrders builds around the nonce, lines 522-539
CancelOrdersParams(nonce, ids) ==
    ReqCancelMulti \o nonce \o <<34>> \o OrderIdsOpen
        \o JoinIds(ids, 1, Len(ids)) \o <<93>> \o <<125>>

\* the milliseconds since the epoch when the first call is made
StartMs == 8

\* getTonce(), lines 1044-1052, at the clock reading ms
getTonce(ms) == to_string(ms)

\* CURLcode: CURLE_OK, CURLE_OPERATION_TIMEDOUT
CURLE_OK == 0
CURLE_OPERATION_TIMEDOUT == 28
CurlCodes == { CURLE_OK, CURLE_OPERATION_TIMEDOUT }

\* bfxERR::curlERR
curlERR == 1

Threads == { 1, 2 }

\* the keys: none, the access keys "a" and "b", the secret keys "s!" and "t!"
NoKey == <<>>
Creds ==
    { <<NoKey, NoKey>>, <<StrA, <<115, 33>>>>, <<StrA, <<116, 33>>>>,
      <<StrB, <<116, 33>>>> }

\* the numbers of order ids cancelOrders is called with: one, and as many
\* as make params one byte longer than BufSize
IdCounts == { 1, (BufSize - 62) \div 2 }

\* the locals of an authenticated call
NoCall ==
    [endpoint |-> "none", ids |-> 0, args |-> <<>>, nonce |-> -1,
     params |-> <<>>,
     payload |-> <<>>,
     signature |-> <<>>, key |-> <<>>, access |-> <<>>, httpHeaders |-> <<>>,
     status |-> -1, ret |-> -1]

NoHandle == [HTTPHEADER |-> <<>>, WRITEDATA |-> 0]

\* what the clock and the callers do with the other variables
Others == <<hvars, dvars, evars, svars, wvars, pvars>>

\* a millisecond passes
Tick ==
    /\ now < StartMs + MaxTicks
    /\ now' = now + 1
    /\ UNCHANGED <<accessKey_, secretKey_, curlPOST_, curlStatusCode_,
                   bfxApiStatusCode_, handle, tpc, call, result, skpc, skArgs,
                   posted, ctorKeys, installed, callsLeft, keysLeft, got,
                   Others>>

\* setKeys(accessKey, secretKey), lines 211-215, called by the one caller
\* between its requests
setKeys ==
    /\ keysLeft > 0
    /\ \A t \in Threads : tpc[t] = "idle"
    /\ \E k \in Creds :
          /\ accessKey_' = k[1]
          /\ secretKey_' = k[2]
          /\ installed' = installed \cup {k}
    /\ keysLeft' = keysLeft - 1
    /\ UNCHANGED <<curlPOST_, curlStatusCode_, bfxApiStatusCode_, handle, now,
                   tpc, call, result, skpc, skArgs, posted, ctorKeys, callsLeft,
                   got,
                   Others>>

\* setKeys called by a thread while other threads use the client:
\* this->accessKey_ = accessKey, line 213
setKeysAccess ==
    /\ keysLeft > 0
    /\ skpc = "idle"
    /\ \E k \in Creds :
          /\ skArgs' = k
          /\ accessKey_' = k[1]
          /\ installed' = installed \cup {k}
    /\ skpc' = "secret"
    /\ keysLeft' = keysLeft - 1
    /\ UNCHANGED <<secretKey_, curlPOST_, curlStatusCode_, bfxApiStatusCode_,
                   handle, now, tpc, call, result, posted, ctorKeys, callsLeft,
                   got,
                   Others>>

\* this->secretKey_ = secretKey, line 214
setKeysSecret ==
    /\ skpc = "secret"
    /\ secretKey_' = skArgs[2]
    /\ skpc' = "idle"
    /\ UNCHANGED <<accessKey_, curlPOST_, curlStatusCode_, bfxApiStatusCode_,
                   handle, now, tpc, call, result, skArgs, posted, ctorKeys,
                   installed, callsLeft, keysLeft, got,
                   Others>>

\* an authenticated endpoint, called with args, has built params around
\* getTonce(), the clock reading nonce, and calls DoPOSTrequest with them
\* and the caller's result string
Request(t, name, n, args, params, nonce) ==
    /\ tpc[t] = "idle"
    /\ callsLeft[t] > 0
    /\ callsLeft' = [callsLeft EXCEPT ![t] = @ - 1]
    /\ tpc' = [tpc EXCEPT ![t] = "post"]
    /\ call' = [call EXCEPT ![t] =
                  [NoCall EXCEPT !.endpoint = name, !.ids = n, !.args = args,
                                 !.nonce = nonce, !.params = params]]
    /\ UNCHANGED <<accessKey_, secretKey_, curlPOST_, curlStatusCode_,
                   bfxApiStatusCode_, handle, now, result, skpc, skArgs, posted,
                   ctorKeys, installed, keysLeft, got,
                   Others>>

\* an authenticated endpoint whose arguments are its order ids, if any
Endpoint(t, name, n, params, nonce) ==
    Request(t, name, n, <<>>, params, nonce)

\* getAccountInfo(result), lines 330-336
getAccountInfo(t) ==
    Endpoint(t, "/account_infos/", 0, AccountInfoParams(getTonce(now)), now)

\* cancelOrders(result, vOrder_ids), lines 520-541
cancelOrders(t) ==
    \E n \in IdCounts :
        Endpoint(t, "/order/cancel/multi/", n,
                 CancelOrdersParams(getTonce(now), [i \in 1..n |-> 7]), now)

\* DoPOSTrequest, lines 988-993: with no handle curlERR is returned; else
\* getBase64(params, payload) on the empty string payload
PostEncode(t) ==
    /\ tpc[t] = "post"
    /\ IF ~curlPOST_
       THEN /\ tpc' = [tpc EXCEPT ![t] = "done"]
            /\ call' = [call EXCEPT ![t].ret = curlERR]
       ELSE \E o \in B64Outcomes(call[t].params, <<>>) :
               IF o.ret = "crash"
               THEN /\ tpc' = [tpc EXCEPT ![t] = "crashed"]
                    /\ call' = call
               ELSE /\ tpc' = [tpc EXCEPT ![t] = "encoded"]
                    /\ call' = [call EXCEPT ![t].payload = o.encoded]
    /\ UNCHANGED <<accessKey_, secretKey_, curlPOST_, curlStatusCode_,
                   bfxApiStatusCode_, handle, now, result, skpc, skArgs, posted,
                   ctorKeys, installed, callsLeft, keysLeft, got,
                   Others>>

\* getHmacSha384(secretKey_, payload, signature), line 994
PostSign(t) ==
    /\ tpc[t] = "encoded"
    /\ tpc' = [tpc EXCEPT ![t] = "signed"]
    /\ call' = [call EXCEPT
                  ![t].signature =
                      getHmacSha384(secretKey_, call[t].payload, <<>>),
                  ![t].key = secretKey_]
    /\ UNCHANGED <<accessKey_, secretKey_, curlPOST_, curlStatusCode_,
                   bfxApiStatusCode_, handle, now, result, skpc, skArgs, posted,
                   ctorKeys, installed, callsLeft, keysLeft, got,
                   Others>>

\* the three headers appended to httpHeaders, lines 997-1006;
\* curl_slist_append copies each one as a C string
HeaderList(access, key, params, payload, signature) ==
    << CStr(HdrApiKey \o access),
       CStr(HdrPayload \o payload),
       CStr(HdrSignature \o signature) >>

\* the headers are built, lines 997-1006
PostHeaders(t) ==
    /\ tpc[t] = "signed"
    /\ tpc' = [tpc EXCEPT ![t] = "headers"]
    /\ call' = [call EXCEPT
                  ![t].httpHeaders =
                      HeaderList(accessKey_, call[t].key, call[t].params,
                                 call[t].payload, call[t].signature),
                  ![t].access = accessKey_]
    /\ UNCHANGED <<accessKey_, secretKey_, curlPOST_, curlStatusCode_,
                   bfxApiStatusCode_, handle, now, result, skpc, skArgs, posted,
                   ctorKeys, installed, callsLeft, keysLeft, got,
                   Others>>

\* curl_easy_setopt(curlPOST_, ...), lines 1008-1015: the headers and the
\* address of the caller's result string are set on the client's handle
PostSetopt(t) ==
    /\ tpc[t] = "headers"
    /\ tpc' = [tpc EXCEPT ![t] = "ready"]
    /\ handle' = [HTTPHEADER |-> call[t].httpHeaders, WRITEDATA |-> t]
    /\ UNCHANGED <<accessKey_, secretKey_, curlPOST_, curlStatusCode_,
                   bfxApiStatusCode_, now, call, result, skpc, skArgs, posted,
                   ctorKeys, installed, callsLeft, keysLeft, got,
                   Others>>

\* the response body that arrives for a request that ends with status st:
\* the one byte "a", or nothing when the request fails
PostBody(st) == IF st # CURLE_OK THEN <<>> ELSE StrA

\* what a request's response makes WriteCallback append to the string
\* WRITEDATA points at: nothing when the request fails; else the one chunk
\* "a" and what the memory after it holds
Responses(st) ==
    IF st # CURLE_OK THEN { <<>> }
    ELSE { WriteCallbackAppends(StrA, mem) : mem \in Afters }

\* curlStatusCode_ = curl_easy_perform(curlPOST_), line 1017: the request
\* goes out with the headers set on the handle, the response is appended by
\* WriteCallback to the string set on the handle, and the request's status
\* is stored in the client
PostPerform(t) ==
    /\ tpc[t] = "ready"
    /\ tpc' = [tpc EXCEPT ![t] = "performed"]
    /\ \E st \in CurlCodes :
          /\ curlStatusCode_' = st
          /\ call' = [call EXCEPT ![t].status = st]
          /\ posted' = Append(posted,
                 [by |-> t, headers |-> handle.HTTPHEADER,
                  own |-> handle.HTTPHEADER = call[t].httpHeaders,
                  nonce |-> call[t].nonce, endpoint |-> call[t].endpoint,
                  ids |-> call[t].ids, access |-> call[t].access,
                  key |-> call[t].key])
          /\ \E r \in Responses(st) :
                result' = [result EXCEPT ![handle.WRITEDATA] = @ \o r]
          /\ got' = [got EXCEPT ![t] = @ \o PostBody(st)]
    /\ UNCHANGED <<accessKey_, secretKey_, curlPOST_, bfxApiStatusCode_,
                   handle, now, skpc, skArgs, ctorKeys, installed, callsLeft,
                   keysLeft, Others>>

\* return curlStatusCode_, lines 1020-1025
PostReturn(t) ==
    /\ tpc[t] = "performed"
    /\ tpc' = [tpc EXCEPT ![t] = "done"]
    /\ call' = [call EXCEPT ![t].ret = curlStatusCode_]
    /\ UNCHANGED <<accessKey_, secretKey_, curlPOST_, curlStatusCode_,
                   bfxApiStatusCode_, handle, now, result, skpc, skArgs, posted,
                   ctorKeys, installed, callsLeft, keysLeft, got,
                   Others>>

\* the caller has the value returned, takes the response out of its result
\* string and goes on
EndCall(t) ==
    /\ tpc[t] = "done"
    /\ tpc' = [tpc EXCEPT ![t] = "idle"]
    /\ call' = [call EXCEPT ![t] = NoCall]
    /\ result' = [result EXCEPT ![t] = <<>>]
    /\ got' = [got EXCEPT ![t] = <<>>]
    /\ UNCHANGED <<accessKey_, secretKey_, curlPOST_, curlStatusCode_,
                   bfxApiStatusCode_, handle, now, skpc, skArgs, posted,
                   ctorKeys, installed, callsLeft, keysLeft, Others>>

\* the caller has the value returned and goes on with the same result
\* string, which it will pass to its next call as it is
Again(t) ==
    /\ tpc[t] = "done"
    /\ tpc' = [tpc EXCEPT ![t] = "idle"]
    /\ call' = [call EXCEPT ![t] = NoCall]
    /\ UNCHANGED <<accessKey_, secretKey_, curlPOST_, curlStatusCode_,
                   bfxApiStatusCode_, handle, now, result, skpc, skArgs,
                   posted, ctorKeys, installed, callsLeft, keysLeft, got,
                   Others>>

\* the steps of DoPOSTrequest
DoPOSTrequest(t) ==
    \/ PostEncode(t)
    \/ PostSign(t)
    \/ PostHeaders(t)
    \/ PostSetopt(t)
    \/ PostPerform(t)
    \/ PostReturn(t)

----------------------------------------------------------------------------
(* BitfinexAPI: the constructor, the public endpoints and DoGETrequest, and
   the authenticated endpoints that validate their arguments
   (BitfinexAPI.hpp 76-89, 111-176, 198-207, 221-313, 354-377, 445-482,
   957-982, 1114-1118) *)

\* enum bfxERR, lines 76-89, in the order of its values
badSymbol == "badSymbol"
badCurrency == "badCurrency"
badDepositMethod == "badDepositMethod"
badWalletType == "badWalletType"
badOrderType == "badOrderType"

bfxERR ==
    << noError, "curlERR", badSymbol, badCurrency, badDepositMethod,
       badWalletType, "requiredParamsMissing", "wireParamsMissing",
       "addressParamsMissing", badOrderType, jsonStrToUSetError >>

\* the int an endpoint returns for the enumerator e
AsInt(e) == (CHOOSE i \in 1..Len(bfxERR) : bfxERR[i] = e) - 1

\* currencies_, lines 128-146: BTG, DSH, ETC, ETP, EUR, GBP, IOT, JPY,
\* LTC, NEO, OMG, SAN, USD, XMR, XRP, ZEC
currencies_ ==
    { <<66, 84, 71>>,
      <<68, 83, 72>>,
      <<69, 84, 67>>,
      <<69, 84, 80>>,
      <<69, 85, 82>>,
      <<71, 66, 80>>,
      <<73, 79, 84>>,
      <<74, 80, 89>>,
      <<76, 84, 67>>,
      <<78, 69, 79>>,
      <<79, 77, 71>>,
      <<83, 65, 78>>,
      <<85, 83, 68>>,
      <<88, 77, 82>>,
      <<88, 82, 80>>,
      <<90, 69, 67>> }

\* methods_, lines 149-161: "bcash" "bitcoin" has no comma between its two
\* literals, which makes the one string bcashbitcoin; then ethereum,
\* ethereumc (twice), litecoin, mastercoin, monero, tetheruso, zcash
methods_ ==
    { <<98, 99, 97, 115, 104, 98, 105, 116, 99, 111, 105, 110>>,
      <<101, 116, 104, 101, 114, 101, 117, 109>>,
      <<101, 116, 104, 101, 114, 101, 117, 109, 99>>,
      <<108, 105, 116, 101, 99, 111, 105, 110>>,
      <<109, 97, 115, 116, 101, 114, 99, 111, 105, 110>>,
      <<109, 111, 110, 101, 114, 111>>,
      <<116, 101, 116, 104, 101, 114, 117, 115, 111>>,
      <<122, 99, 97, 115, 104>> }

\* walletNames_, lines 162-165: trading, exchange, deposit
walletNames_ ==
    { <<116, 114, 97, 100, 105, 110, 103>>,
      <<101, 120, 99, 104, 97, 110, 103, 101>>,
      <<100, 101, 112, 111, 115, 105, 116>> }

\* types_, lines 167-179: market, limit, stop, trailing-stop, fill-or-kill,
\* and each of them after "exchange "
types_ ==
    { <<109, 97, 114, 107, 101, 116>>,
      <<108, 105, 109, 105, 116>>,
      <<115, 116, 111, 112>>,
      <<116, 114, 97, 105, 108, 105, 110, 103, 45, 115, 116, 111, 112>>,
      <<102, 105, 108, 108, 45, 111, 114, 45, 107, 105, 108, 108>>,
      <<101, 120, 99, 104, 97, 110, 103, 101, 32, 109, 97, 114, 107, 101,
      116>>,
      <<101, 120, 99, 104, 97, 110, 103, 101, 32, 108, 105, 109, 105, 116>>,
      <<101, 120, 99, 104, 97, 110, 103, 101, 32, 115, 116, 111, 112>>,
      <<101, 120, 99, 104, 97, 110, 103, 101, 32, 116, 114, 97, 105, 108, 105,
      110, 103, 45, 115, 116, 111, 112>>,
      <<101, 120, 99, 104, 97, 110, 103, 101, 32, 102, 105, 108, 108, 45, 111,
      114, 45, 107, 105, 108, 108>> }

\* inArray(value, inputSet), lines 1114-1118
inArray(value, inputSet) == value \in inputSet

\* USD
USD ==
    <<85, 83, 68>>

\* bitcoin
Bitcoin ==
    <<98, 105, 116, 99, 111, 105, 110>>

\* ethereum
Ethereum ==
    <<101, 116, 104, 101, 114, 101, 117, 109>>

\* exchange
Exchange ==
    <<101, 120, 99, 104, 97, 110, 103, 101>>

\* limit
Limit ==
    <<108, 105, 109, 105, 116>>

\* the arguments the endpoints are called with: a symbol the exchange
\* may list and one it never does; a currency of the list and none; the
\* deposit methods bitcoin and ethereum; a wallet of the list and none; an
\* order type of the list and none
SymbolArgs == { StrA, StrC }
CurrencyArgs == { USD, StrA }
MethodArgs == { Bitcoin, Ethereum }
WalletArgs == { Exchange, StrA }
TypeArgs == { Limit, StrA }

\* {"request":"/v1/deposit/new","nonce":"
ReqDepositNew ==
    <<123, 34, 114, 101, 113, 117, 101, 115, 116, 34, 58, 34, 47, 118, 49, 47,
    100, 101, 112, 111, 115, 105, 116, 47, 110, 101, 119, 34, 44, 34, 110,
    111, 110, 99, 101, 34, 58, 34>>

\* ,"method":"
DepMethod ==
    <<44, 34, 109, 101, 116, 104, 111, 100, 34, 58, 34>>

\* ,"wallet_name":"
DepWalletName ==
    <<44, 34, 119, 97, 108, 108, 101, 116, 95, 110, 97, 109, 101, 34, 58, 34>>

\* ,"renew":
DepRenew ==
    <<44, 34, 114, 101, 110, 101, 119, 34, 58>>

\* the params deposit builds, lines 370-375, with renew = 0
DepositParams(nonce, method, walletName) ==
    ReqDepositNew \o nonce \o <<34>>
        \o DepMethod \o method \o <<34>>
        \o DepWalletName \o walletName \o <<34>>
        \o DepRenew \o to_string(0) \o <<125>>

\* {"request":"/v1/order/new","nonce":"
ReqOrderNew ==
    <<123, 34, 114, 101, 113, 117, 101, 115, 116, 34, 58, 34, 47, 118, 49, 47,
    111, 114, 100, 101, 114, 47, 110, 101, 119, 34, 44, 34, 110, 111, 110, 99,
    101, 34, 58, 34>>

\* ,"symbol":"
OrdSymbol ==
    <<44, 34, 115, 121, 109, 98, 111, 108, 34, 58, 34>>

\* ,"amount":"1.000000"  (to_string(1.0))
OrdAmountOne ==
    <<44, 34, 97, 109, 111, 117, 110, 116, 34, 58, 34, 49, 46, 48, 48, 48, 48,
    48, 48, 34>>

\* ,"price":"1.000000"  (to_string(1.0))
OrdPriceOne ==
    <<44, 34, 112, 114, 105, 99, 101, 34, 58, 34, 49, 46, 48, 48, 48, 48, 48,
    48, 34>>

\* ,"side":"buy"
OrdSideBuy ==
    <<44, 34, 115, 105, 100, 101, 34, 58, 34, 98, 117, 121, 34>>

\* ,"type":"
OrdType ==
    <<44, 34, 116, 121, 112, 101, 34, 58, 34>>

\* ,"is_hidden":false,"is_postonly":false,"use_all_available":false,
\* "ocoorder":false,"buy_price_oco":false}
OrdDefaults ==
    <<44, 34, 105, 115, 95, 104, 105, 100, 100, 101, 110, 34, 58, 102, 97,
    108, 115, 101, 44, 34, 105, 115, 95, 112, 111, 115, 116, 111, 110, 108,
    121, 34, 58, 102, 97, 108, 115, 101, 44, 34, 117, 115, 101, 95, 97, 108,
    108, 95, 97, 118, 97, 105, 108, 97, 98, 108, 101, 34, 58, 102, 97, 108,
    115, 101, 44, 34, 111, 99, 111, 111, 114, 100, 101, 114, 34, 58, 102, 97,
    108, 115, 101, 44, 34, 98, 117, 121, 95, 112, 114, 105, 99, 101, 95, 111,
    99, 111, 34, 58, 102, 97, 108, 115, 101, 125>>

\* the params newOrder builds, lines 468-480, for amount 1.0, price 1.0,
\* side buy and the default values of the other arguments
NewOrderParams(nonce, symbol, type) ==
    ReqOrderNew \o nonce \o <<34>>
        \o OrdSymbol \o symbol \o <<34>>
        \o OrdAmountOne \o OrdPriceOne \o OrdSideBuy
        \o OrdType \o type \o <<34>>
        \o OrdDefaults

\* the response bodies the exchange sends: ["a"] and [1]
BodyA == <<91, 34, 97, 34, 93>>
BodyNum == <<91, 49, 93>>
GetBodies == { BodyA, BodyNum }

\* the bytes that arrive for a request that ends with status st: a whole
\* body when it succeeds; when it fails (a timeout of the transfer, say),
\* whatever had arrived by then, from nothing to a whole body
Arrived(st) ==
    IF st = CURLE_OK THEN GetBodies
    ELSE UNION { { SubSeq(b, 1, n) : n \in 0..Len(b) } : b \in GetBodies }

\* what libcurl makes WriteCallback append to the string WRITEDATA points
\* at for the bytes body: nothing when none arrived; else they are handed
\* over in one chunk, which is followed in memory by mem
Written(body) ==
    IF body = <<>> THEN { <<>> }
    ELSE { WriteCallbackAppends(body, mem) : mem \in Afters }

\* no request made through curlGET_ yet; a request is recorded with the
\* number of the public call that made it (0: the constructor), the value
\* of bfxApiStatusCode_ at that time, its status and the bytes that arrived
NoGet ==
    [url |-> <<"", <<>>>>, at |-> 0, api |-> noError, status |-> -1,
     body |-> <<>>]
NoPub == [n |-> 0, op |-> "none", arg |-> <<>>]

\* what the public endpoints and the constructor do not touch
AuthSide ==
    <<accessKey_, secretKey_, curlPOST_, handle, now, tpc, call, result,
      skpc, skArgs, posted, ctorKeys, installed, callsLeft, keysLeft, got>>
Machines == <<hvars, dvars, evars, svars, wvars>>

\* DoGETrequest(UrlEndPoint, params), lines 957-982: with no handle nothing
\* happens; else result_ is cleared, the request is made, WriteCallback
\* appends to result_, and the status is stored in curlStatusCode_
DoGETrequest(url) ==
    IF ~curlGET_
    THEN UNCHANGED <<result_, curlStatusCode_, lastGet>>
    ELSE \E st \in CurlCodes :
            \E body \in Arrived(st) :
                \E w \in Written(body) :
                    /\ result_' = <<>> \o w
                    /\ curlStatusCode_' = st
                    /\ lastGet' = [url |-> url, at |-> pub'.n,
                                   api |-> bfxApiStatusCode_, status |-> st,
                                   body |-> body]

\* hasApiError(), lines 201-207
hasApiError ==
    IF bfxApiStatusCode_ = noError /\ curlStatusCode_ = CURLE_OK
    THEN FALSE ELSE TRUE

\* strResponse(), line 200
strResponse == result_

\* a public endpoint is called with arg
PubCall(op, arg) == pub' = [n |-> pub.n + 1, op |-> op, arg |-> arg]

\* Validated gone wrong: a value of the list sets bfxApiStatusCode_ back
\* to noError
Validated_reset(op, url, arg, list, code) ==
    /\ PubCall(op, arg)
    /\ IF ~inArray(arg, list)
       THEN /\ bfxApiStatusCode_' = code
            /\ UNCHANGED <<result_, curlStatusCode_, lastGet>>
       ELSE /\ DoGETrequest(<<url, arg>>)
            /\ bfxApiStatusCode_' = noError
    /\ UNCHANGED <<curlGET_, symbols_, cpc, AuthSide, Machines>>

\* a public endpoint that validates its argument against a list, lines
\* 221-313: a value outside the list sets bfxApiStatusCode_ to code, a
\* value of the list goes to DoGETrequest
Validated(op, url, arg, list, code) ==
    /\ PubCall(op, arg)
    /\ IF ~inArray(arg, list)
       THEN /\ bfxApiStatusCode_' = code
            /\ UNCHANGED <<result_, curlStatusCode_, lastGet>>
       ELSE /\ DoGETrequest(<<url, arg>>)
            /\ UNCHANGED bfxApiStatusCode_
    /\ UNCHANGED <<curlGET_, symbols_, cpc, AuthSide, Machines>>

\* getTicker(symbol), lines 221-229; like the other public endpoints it is
\* called by the one caller between its other calls
getTicker ==
    /\ cpc = "done"
    /\ pub.n < MaxPublic
    /\ \A t \in Threads : tpc[t] = "idle"
    /\ \E symbol \in SymbolArgs :
          Validated("getTicker", "/pubticker/", symbol, symbols_, badSymbol)

\* getFundingBook(currency), lines 241-256, with the default limits
getFundingBook ==
    /\ cpc = "done"
    /\ pub.n < MaxPublic
    /\ \A t \in Threads : tpc[t] = "idle"
    /\ \E currency \in CurrencyArgs :
          Validated("getFundingBook", "/lendbook/", currency, currencies_,
                    badCurrency)

\* getSymbols(), lines 311-316
getSymbols ==
    /\ cpc = "done"
    /\ pub.n < MaxPublic
    /\ \A t \in Threads : tpc[t] = "idle"
    /\ PubCall("getSymbols", <<>>)
    /\ DoGETrequest(<<"/symbols/", <<>>>>)
    /\ UNCHANGED <<bfxApiStatusCode_, curlGET_, symbols_, cpc, AuthSide,
                   Machines>>

\* Reject gone wrong: the nonce is taken before the arguments are checked
Reject_nonce(t, name, args, code) ==
    /\ callsLeft' = [callsLeft EXCEPT ![t] = @ - 1]
    /\ tpc' = [tpc EXCEPT ![t] = "done"]
    /\ call' = [call EXCEPT ![t] =
                  [NoCall EXCEPT !.endpoint = name, !.args = args,
                                 !.nonce = now, !.ret = AsInt(code)]]
    /\ UNCHANGED <<accessKey_, secretKey_, curlPOST_, curlStatusCode_,
                   bfxApiStatusCode_, handle, now, result, skpc, skArgs, posted,
                   ctorKeys, installed, keysLeft, got,
                   Others>>

\* an authenticated endpoint returns code before it builds anything
Reject(t, name, args, code) ==
    /\ callsLeft' = [callsLeft EXCEPT ![t] = @ - 1]
    /\ tpc' = [tpc EXCEPT ![t] = "done"]
    /\ call' = [call EXCEPT ![t] =
                  [NoCall EXCEPT !.endpoint = name, !.args = args,
                                 !.ret = AsInt(code)]]
    /\ UNCHANGED <<accessKey_, secretKey_, curlPOST_, curlStatusCode_,
                   bfxApiStatusCode_, handle, now, result, skpc, skArgs, posted,
                   ctorKeys, installed, keysLeft, got,
                   Others>>

\* newOrder(result, symbol, 1.0, 1.0, "buy", type), lines 445-482
newOrder(t) ==
    /\ cpc = "done"
    /\ tpc[t] = "idle"
    /\ callsLeft[t] > 0
    /\ \E symbol \in SymbolArgs, type \in TypeArgs :
          IF ~inArray(symbol, symbols_)
          THEN Reject(t, "/order/new/", <<symbol, type>>, badSymbol)
          ELSE IF ~inArray(type, types_)
          THEN Reject(t, "/order/new/", <<symbol, type>>, badOrderType)
          ELSE Request(t, "/order/new/", 0, <<symbol, type>>,
                       NewOrderParams(getTonce(now), symbol, type), now)

\* deposit(result, method, walletName), lines 354-377
deposit(t) ==
    /\ cpc = "done"
    /\ tpc[t] = "idle"
    /\ callsLeft[t] > 0
    /\ \E method \in MethodArgs, walletName \in WalletArgs :
          IF ~inArray(method, methods_)
          THEN Reject(t, "/deposit/new/", <<method, walletName>>,
                      badDepositMethod)
          ELSE IF ~inArray(walletName, walletNames_)
          THEN Reject(t, "/deposit/new/", <<method, walletName>>,
                      badWalletType)
          ELSE Request(t, "/deposit/new/", 0, <<method, walletName>>,
                       DepositParams(getTonce(now), method, walletName), now)

RECURSIVE Lexemes(_)
\* the lexemes rapidjson's Reader finds in the text s: the brackets, the
\* comma, a string between two quotation marks, the number 1; any other
\* byte, and a string with no closing quotation mark, is no JSON
Lexemes(s) ==
    IF s = <<>> THEN <<>>
    ELSE LET c == s[1]
             quotes == { j \in 2..Len(s) : s[j] = 34 }
             close == CHOOSE j \in quotes : \A k \in quotes : j <= k
         IN  CASE c = 91 -> <<Lex("[")>> \o Lexemes(Tail(s))
               [] c = 93 -> <<Lex("]")>> \o Lexemes(Tail(s))
               [] c = 44 -> <<Lex(",")>> \o Lexemes(Tail(s))
               [] c = 49 -> <<Lex("num")>> \o Lexemes(Tail(s))
               [] c = 34 /\ quotes # {} ->
                     <<StrLex(SubSeq(s, 2, close - 1))>>
                         \o Lexemes(SubSeq(s, close + 1, Len(s)))
               [] OTHER -> <<Lex("bad")>>

\* the constructor's body, line 124: getSymbols()
CtorGetSymbols ==
    /\ cpc = "start"
    /\ cpc' = "fetched"
    /\ pub' = pub
    /\ DoGETrequest(<<"/symbols/", <<>>>>)
    /\ UNCHANGED <<bfxApiStatusCode_, curlGET_, symbols_, AuthSide, Machines>>

\* line 125: jsonStrToUset(symbols_, result_) is entered; it reads
\* result_.c_str() (jsonutils.hpp 145), and uSet is symbols_
CtorDecode ==
    /\ cpc = "fetched"
    /\ pc = "idle"
    /\ Enter(Lexemes(CStr(result_)))

\* jsonStrToUset runs
CtorParse ==
    /\ cpc = "fetched"
    /\ \/ ReaderStep
       \/ Return

\* jsonStrToUset has returned: its value is not looked at, symbols_ is
\* what the call made of it, and result_.clear(), line 126; lines 128-179
\* set the other lists
CtorFinish ==
    /\ cpc = "fetched"
    /\ pc = "returned"
    /\ symbols_' = uSet
    /\ result_' = <<>>
    /\ cpc' = "done"
    /\ UNCHANGED <<curlStatusCode_, bfxApiStatusCode_, curlGET_, lastGet, pub,
                   AuthSide, Machines>>

----------------------------------------------------------------------------
(* Specifications *)

InitDecode ==
    /\ state_ = kExpectArrayStart
    /\ handlerUSet_ = {}
    /\ hEv = NoEvent
    /\ hOk = TRUE
    /\ hClosed = FALSE
    /\ pc = "idle"
    /\ jsonStr = <<>>
    /\ pos = 0
    /\ mode = "root"
    /\ stack = <<>>
    /\ sstate = "sRoot"
    /\ valid_ = TRUE
    /\ invalidKeyword = "none"
    /\ parseErr = "None"
    /\ errOffset = 0
    /\ uSet \in { {}, {StrC} }
    /\ ret = noError
    /\ cerr = NoDiag
    /\ uSetAtCall = uSet
    /\ nSchema = 0
    /\ nHandler = 0
    /\ rejS = FALSE
    /\ rejH = FALSE
    /\ rejAt = -1
    /\ prev = NoOutcome

\* no call of getHmacSha384 is under way
InitNoSign ==
    /\ signKey = <<>>
    /\ signContent = <<>>
    /\ signDigest = <<>>
    /\ firstDigest = <<>>
    /\ nSigned = 0

\* no transfer is under way
InitNoWrite ==
    /\ userp = <<>>
    /\ userpAtStart = <<>>
    /\ received = <<>>
    /\ chunkSize = 0
    /\ writeRet = 0

\* the public side of the client is not used
InitNoPublic ==
    /\ curlGET_ = FALSE
    /\ symbols_ = {}
    /\ result_ = <<>>
    /\ cpc = "done"
    /\ lastGet = NoGet
    /\ pub = NoPub

\* no client has been built
InitNoClient ==
    /\ accessKey_ = NoKey
    /\ secretKey_ = NoKey
    /\ curlPOST_ = FALSE
    /\ curlStatusCode_ = CURLE_OK
    /\ bfxApiStatusCode_ = noError
    /\ handle = NoHandle
    /\ now = StartMs
    /\ tpc = [t \in Threads |-> "idle"]
    /\ call = [t \in Threads |-> NoCall]
    /\ result = [t \in Threads |-> <<>>]
    /\ skpc = "idle"
    /\ skArgs = <<NoKey, NoKey>>
    /\ posted = <<>>
    /\ ctorKeys = <<NoKey, NoKey>>
    /\ installed = {}
    /\ callsLeft = [t \in Threads |-> 0]
    /\ keysLeft = 0
    /\ got = [t \in Threads |-> <<>>]
    /\ InitNoPublic

\* no call of getBase64 is under way
InitNoEncode ==
    /\ content = <<>>
    /\ encodedIn = <<>>
    /\ encoded = <<>>
    /\ b64ret = "none"
    /\ oob = 0

Init ==
    /\ InitDecode
    /\ InitNoEncode
    /\ InitNoSign
    /\ InitNoWrite
    /\ InitNoClient

\* calls of jsonStrToUset, one after the other
Next ==
    \/ Call
    \/ ReaderStep
    \/ Return
    \/ Leave

Spec == Init /\ [][Next]_vars

\* the handler alone, under any sequence of SAX events
NextHandler ==
    \/ CallStartArray
    \/ CallEndArray
    \/ CallString
    \/ CallKey
    \/ CallRawNumber
    \/ CallDefault

SpecHandler == Init /\ [][NextHandler]_vars

\* getBase64 before it is called with a payload and the caller's string
InitEncode ==
    /\ InitDecode
    /\ content \in Payloads
    /\ encodedIn \in { <<>>, <<88>> }
    /\ encoded = encodedIn
    /\ b64ret = "none"
    /\ oob = 0
    /\ InitNoSign
    /\ InitNoWrite
    /\ InitNoClient

NextEncode == getBase64

SpecEncode == InitEncode /\ [][NextEncode]_vars

\* the keys requests are signed with: none, "k", "K"
SignKeys == { <<>>, <<107>>, <<75>> }

\* getHmacSha384 before it is called with a key, an encoded payload and the
\* caller's string
InitSign ==
    /\ InitDecode
    /\ InitNoEncode
    /\ InitNoWrite
    /\ signKey \in SignKeys
    /\ signContent \in { Base64Encode(c) : c \in { q \in Payloads : Len(q) <= MaxShort } }
    /\ signDigest \in { <<>>, <<88>> }
    /\ firstDigest = <<>>
    /\ nSigned = 0
    /\ InitNoClient

NextSign == CallSign

SpecSign == InitSign /\ [][NextSign]_vars

\* BitfinexAPI(accessKey, secretKey), lines 113-126, has built the client:
\* the keys are the ones given, whatever they are; curl_easy_init() gave a
\* handle or none; curlStatusCode_ is the status of the symbols request the
\* constructor made; bfxApiStatusCode_ is noError.  Each of the callers may
\* make calls calls, and setKeys may be called keys times.
InitBuilt(callers, calls, keys) ==
    /\ InitDecode
    /\ InitNoEncode
    /\ InitNoSign
    /\ InitNoWrite
    /\ \E k \in Creds :
          /\ accessKey_ = k[1]
          /\ secretKey_ = k[2]
          /\ ctorKeys = k
          /\ installed = {k}
    /\ curlPOST_ \in BOOLEAN
    /\ curlStatusCode_ \in CurlCodes
    /\ bfxApiStatusCode_ = noError
    /\ handle = NoHandle
    /\ now = StartMs
    /\ tpc = [t \in Threads |-> "idle"]
    /\ call = [t \in Threads |-> NoCall]
    /\ result = [t \in Threads |-> <<>>]
    /\ skpc = "idle"
    /\ skArgs = <<NoKey, NoKey>>
    /\ posted = <<>>
    /\ callsLeft = [t \in Threads |-> IF t \in callers THEN calls ELSE 0]
    /\ keysLeft = keys
    /\ got = [t \in Threads |-> <<>>]

\* a client built and used through its authenticated endpoints only
InitClient(callers, calls, keys) ==
    /\ InitBuilt(callers, calls, keys)
    /\ InitNoPublic

\* one authenticated request, with few or many order ids
InitPost == InitClient({1}, 1, 0)

NextPost ==
    \/ Tick
    \/ getAccountInfo(1)
    \/ cancelOrders(1)
    \/ DoPOSTrequest(1)
    \/ EndCall(1)

SpecPost == InitPost /\ [][NextPost]_vars

\* one caller calls getAccountInfo again and again while the clock runs, and
\* replaces the keys between two calls
InitAuth == InitClient({1}, MaxCalls, MaxSetKeys)

NextAuth ==
    \/ Tick
    \/ setKeys
    \/ getAccountInfo(1)
    \/ DoPOSTrequest(1)
    \/ EndCall(1)

SpecAuth == InitAuth /\ [][NextAuth]_vars

\* one caller makes authenticated requests within one millisecond, and
\* replaces the keys between two of them
InitRuns == InitClient({1}, MaxCalls, MaxSetKeys)

NextRuns ==
    \/ setKeys
    \/ getAccountInfo(1)
    \/ cancelOrders(1)
    \/ DoPOSTrequest(1)
    \/ EndCall(1)

SpecRuns == InitRuns /\ [][NextRuns]_vars

\* two threads make one authenticated call each on a client whose keys do
\* not change, while the clock runs
InitCalls == InitClient(Threads, 1, 0)

NextCalls ==
    \/ Tick
    \/ \E t \in Threads :
          \/ getAccountInfo(t)
          \/ DoPOSTrequest(t)
          \/ EndCall(t)

SpecCalls == InitCalls /\ [][NextCalls]_vars

\* two threads call getAccountInfo on the same client, once each, while a
\* third replaces the keys
InitThreads == InitClient(Threads, 1, MaxSetKeys)

NextThreads ==
    \/ setKeysAccess
    \/ setKeysSecret
    \/ \E t \in Threads :
          \/ getAccountInfo(t)
          \/ DoPOSTrequest(t)
          \/ EndCall(t)

SpecThreads == InitThreads /\ [][NextThreads]_vars

\* the constructor after its member initialisers, lines 114-121: the keys
\* are stored, curl_easy_init() gave each handle or none, curlStatusCode_
\* is CURLE_OK, bfxApiStatusCode_ is noError, symbols_ and result_ are
\* empty; the caller makes one authenticated call once the client is built
InitCtor ==
    /\ InitBuilt({1}, 1, 0)
    /\ curlStatusCode_ = CURLE_OK
    /\ uSet = {}
    /\ curlGET_ \in BOOLEAN
    /\ symbols_ = {}
    /\ result_ = <<>>
    /\ cpc = "start"
    /\ lastGet = NoGet
    /\ pub = NoPub

NextCtor ==
    \/ CtorGetSymbols
    \/ CtorDecode
    \/ CtorParse
    \/ CtorFinish
    \/ getTicker
    \/ newOrder(1)
    \/ DoPOSTrequest(1)
    \/ EndCall(1)

SpecCtor == InitCtor /\ [][NextCtor]_vars

\* a client that has been built with the keys "a" and "s!", with the
\* symbols the constructor got (none without a handle), used through
\* public and authenticated endpoints by one caller
InitPublic ==
    /\ InitBuilt({1}, 1, 0)
    /\ ctorKeys = <<StrA, <<115, 33>>>>
    /\ uSet = {}
    /\ curlGET_ \in BOOLEAN
    /\ symbols_ \in { {}, {StrA} }
    /\ ~curlGET_ => (symbols_ = {} /\ curlStatusCode_ = CURLE_OK)
    /\ result_ = <<>>
    /\ cpc = "done"
    /\ lastGet = NoGet
    /\ pub = NoPub

NextPublic ==
    \/ getTicker
    \/ getFundingBook
    \/ getSymbols
    \/ newOrder(1)
    \/ deposit(1)
    \/ getAccountInfo(1)
    \/ DoPOSTrequest(1)
    \/ EndCall(1)

SpecPublic == InitPublic /\ [][NextPublic]_vars

\* the same client, asked for the symbols and for the account information
\* again and again by one caller, who passes the same result string to
\* every authenticated call
InitResults ==
    /\ InitBuilt({1}, MaxCalls, 0)
    /\ ctorKeys = <<StrA, <<115, 33>>>>
    /\ curlPOST_
    /\ uSet = {}
    /\ curlGET_ \in BOOLEAN
    /\ symbols_ = {}
    /\ ~curlGET_ => curlStatusCode_ = CURLE_OK
    /\ result_ = <<>>
    /\ cpc = "done"
    /\ lastGet = NoGet
    /\ pub = NoPub

NextResults ==
    \/ getSymbols
    \/ getAccountInfo(1)
    \/ DoPOSTrequest(1)
    \/ Again(1)

SpecResults == InitResults /\ [][NextResults]_vars

\* a transfer into a string that is empty or not
InitWrite ==
    /\ InitDecode
    /\ InitNoEncode
    /\ InitNoSign
    /\ userp \in { <<>>, StrC }
    /\ userpAtStart = userp
    /\ received = <<>>
    /\ chunkSize = 0
    /\ writeRet = 0
    /\ InitNoClient

NextWrite == WriteCallback

SpecWrite == InitWrite /\ [][NextWrite]_vars

----------------------------------------------------------------------------
(* What a document is, for the properties *)

RECURSIVE Parses(_, _, _, _)
\* the reader reaches the end of doc without a parse error when no handler
\* stops it: doc is syntactically valid JSON
Parses(doc, p, m, stk) ==
    LET r == ReadLex(m, stk, LexAt(doc, p))
    IN  IF r.err # "None" THEN FALSE
        ELSE IF r.mode = "finished" THEN TRUE
        ELSE Parses(doc, p + 1, r.mode, r.stack)

WellFormed(doc) == Parses(doc, 0, "root", <<>>)

\* doc is a flat JSON array of strings
FlatStringArray(doc) ==
    /\ WellFormed(doc)
    /\ LexKind(doc[1]) = "["
    /\ \A i \in 2..Len(doc) : LexKind(doc[i]) \in {"str", ",", "]"}

\* the distinct string elements of doc, each one whole
Elements(doc) == { LexStr(doc[i]) : i \in { j \in 1..Len(doc) : LexKind(doc[j]) = "str" } }

\* the offset of the first lexeme of doc that a flat array of strings cannot
\* have where it stands
FirstOffending(doc) ==
    IF LexKind(doc[1]) # "[" THEN 0
    ELSE LET bad == { i \in 2..Len(doc) : LexKind(doc[i]) \notin {"str", ",", "]"} }
         IN  (CHOOSE i \in bad : \A j \in bad : i <= j) - 1

\* the number of SAX events in the first n lexemes of doc
EventsIn(doc, n) == Cardinality({ i \in 1..n : LexKind(doc[i]) \notin {",", ":"} })

InCall == pc \in {"parsing", "returned"}

----------------------------------------------------------------------------
(* Properties of jsonStrToUset, under Spec *)

\* C1: when jsonStrToUset returns an error the caller's set is as it was
\* before the call, nothing collected before the rejecting token is visible
\* to the caller at any time, and the call ends either in noError with a
\* clean parse or in jsonStrToUSetError with the set untouched.
C1_NoPartialSet ==
    /\ pc = "parsing" => uSet = uSetAtCall
    /\ pc = "returned" =>
          \/ ret = noError /\ parseErr = "None"
          \/ ret = jsonStrToUSetError /\ parseErr # "None" /\ uSet = uSetAtCall

\* a call has failed after its handler collected strings, and the caller
\* still holds the different, non-empty set it had
C1_Witness ==
    /\ pc = "returned"
    /\ ret = jsonStrToUSetError
    /\ handlerUSet_ # {}
    /\ uSetAtCall # {}
    /\ uSetAtCall # handlerUSet_
    /\ uSet = uSetAtCall

\* C2: for every flat JSON array of strings the call succeeds and the
\* caller's set is exactly the set of the array's distinct string elements,
\* each one whole, whatever the set held before and whatever earlier calls
\* did.
C2_Claim ==
    (pc = "returned" /\ FlatStringArray(jsonStr)) =>
        (ret = noError /\ uSet = Elements(jsonStr))

\* C6: a syntactically valid document that is no flat array of strings fails
\* as a schema violation, with the offset of the first offending token and
\* the violated keyword, and the caller is told so: the value returned is
\* not the one returned for a document that is not JSON.
C6_Claim ==
    (pc = "returned" /\ WellFormed(jsonStr) /\ ~FlatStringArray(jsonStr)) =>
        /\ ret # noError
        /\ Kind = "schema"
        /\ cerr.offset = FirstOffending(jsonStr)
        /\ cerr.keyword = "type"
        /\ prev.kind = "malformed" => prev.ret # ret

\* C7: a document that is not syntactically valid JSON fails, the caller's
\* set is untouched, and the caller can tell the failure from a schema
\* violation: the value returned differs from the one returned for one.
C7_Claim ==
    (pc = "returned" /\ ~WellFormed(jsonStr)) =>
        /\ ret # noError
        /\ uSet = uSetAtCall
        /\ prev.kind = "schema" => prev.ret # ret

C9_EarlyRejection ==
    (InCall /\ rejAt # -1) =>
        /\ pos = rejAt
        /\ parseErr = "Termination"
        /\ nSchema = EventsIn(jsonStr, rejAt + 1)
        /\ handlerUSet_ \subseteq
              { CStr(LexStr(jsonStr[i])) : i \in { j \in 1..rejAt : LexKind(jsonStr[j]) = "str" } }

\* a call has failed on a rejected token that a string follows which the
\* handler never collected, after it had collected another
C9_Witness ==
    /\ pc = "returned"
    /\ rejAt # -1
    /\ handlerUSet_ # {}
    /\ \E i \in rejAt + 2..Len(jsonStr) :
          LexKind(jsonStr[i]) = "str" /\ CStr(LexStr(jsonStr[i])) \notin handlerUSet_

----------------------------------------------------------------------------
(* Properties of jsonStrToUsetHandler, under SpecHandler *)

\* C3: the handler starts in kExpectArrayStart; array-open is accepted only
\* there and moves it to kExpectValueOrArrayEnd; a string is accepted only
\* in kExpectValueOrArrayEnd, leaves the state and adds the string to the
\* set; the state never goes back to kExpectArrayStart.
C3_Claim ==
    [][ /\ EvType(hEv') = "StartArray" =>
              /\ hOk' <=> state_ = kExpectArrayStart
              /\ hOk' => state_' = kExpectValueOrArrayEnd
        /\ EvType(hEv') = "String" =>
              /\ hOk' <=> state_ = kExpectValueOrArrayEnd
              /\ hOk' => /\ state_' = state_
                         /\ handlerUSet_' = handlerUSet_ \cup {EvStr(hEv')}
        /\ state_ # kExpectArrayStart => state_' # kExpectArrayStart ]_vars

\* C4: once array-close has been accepted every later event is rejected and
\* the set no longer changes.
C4_Claim ==
    [][ hClosed => (~hOk' /\ handlerUSet_' = handlerUSet_) ]_vars

\* C5: every event other than array-open, string and array-close is
\* rejected in every state, as are array-open in kExpectValueOrArrayEnd and
\* string or array-close in kExpectArrayStart; a rejected event changes
\* neither the state nor the set.
C5_Claim ==
    [][ /\ ( \/ EvType(hEv') \notin {"StartArray", "String", "EndArray"}
             \/ EvType(hEv') = "StartArray" /\ state_ = kExpectValueOrArrayEnd
             \/ EvType(hEv') \in {"String", "EndArray"} /\ state_ = kExpectArrayStart )
           => ~hOk'
        /\ ~hOk' => (state_' = state_ /\ handlerUSet_' = handlerUSet_) ]_vars

----------------------------------------------------------------------------
(* Properties of getBase64, under SpecEncode *)

\* C10: every call either returns the encoding of the whole payload or fails
\* with PayloadTooLarge: a payload of BufSize bytes or fewer is encoded, a
\* longer one fails with PayloadTooLarge and leaves the output alone, and
\* nothing is ever written outside the buffer.
C10_Claim ==
    b64ret # "none" =>
        /\ oob = 0
        /\ Len(content) <= BufSize =>
              (b64ret = "0" /\ encoded = encodedIn \o Base64Encode(content))
        /\ Len(content) > BufSize =>
              (b64ret = "PayloadTooLarge" /\ encoded = encodedIn)

\* the 6-bit value of the character c of the base64 alphabet
B64Val(c) ==
    IF c >= 65 /\ c <= 90 THEN c - 65
    ELSE IF c >= 97 /\ c <= 122 THEN c - 71
    ELSE IF c >= 48 /\ c <= 57 THEN c + 4
    ELSE IF c = 43 THEN 62
    ELSE IF c = 47 THEN 63
    ELSE 0

\* the number of padding characters that end e
Padding(e) ==
    IF Len(e) = 0 \/ e[Len(e)] # B64Pad THEN 0
    ELSE IF e[Len(e) - 1] # B64Pad THEN 1 ELSE 2

\* base64 decoding of e, whose length is a multiple of 4: 4 characters to 3
\* bytes, less one byte for each padding character
Base64Decode(e) ==
    [k \in 1..3 * (Len(e) \div 4) - Padding(e) |->
        LET g == (k - 1) \div 3
            j == (k - 1) % 3
            v1 == B64Val(e[4 * g + 1])
            v2 == B64Val(e[4 * g + 2])
            v3 == B64Val(e[4 * g + 3])
            v4 == B64Val(e[4 * g + 4])
        IN  CASE j = 0 -> v1 * 4 + v2 \div 16
              [] j = 1 -> (v2 % 16) * 16 + v3 \div 4
              [] OTHER -> (v3 % 4) * 64 + v4]

\* what getBase64 added to the caller's string
Appended == SubSeq(encoded, Len(encodedIn) + 1, Len(encoded))

----------------------------------------------------------------------------
(* Properties of getHmacSha384, under SpecSign *)

HexLower == (48..57) \cup (97..102)

\* C19: every call of getHmacSha384 with the same key and content leaves
\* the same digest in the output string, whatever the string held before,
\* and the digest is exactly 96 characters, each one of 0-9 or a-f.
C19_SignStateless ==
    nSigned > 0 =>
        /\ signDigest = firstDigest
        /\ Len(signDigest) = 2 * DigestSize
        /\ \A k \in 1..Len(signDigest) : signDigest[k] \in HexLower
        /\ signDigest = getHmacSha384(signKey, signContent, <<>>)

\* getHmacSha384 has been called a second time, on a string that held the
\* first digest, and the digest has letters in it
C19_Witness ==
    /\ nSigned = 2
    /\ signKey # <<>>
    /\ \E k \in 1..Len(signDigest) : signDigest[k] >= 97

----------------------------------------------------------------------------
(* Properties of WriteCallback, under SpecWrite *)

\* C20: WriteCallback appends exactly the size * nmemb bytes of the chunk
\* to the target and returns size * nmemb, so that after any sequence of
\* callbacks the target is what it was followed by all chunks received.
C20_Claim ==
    /\ userp = userpAtStart \o received
    /\ writeRet = chunkSize

----------------------------------------------------------------------------
(* Properties of DoPOSTrequest, under SpecPost *)

\* the callers whose call has built its headers
Built == { t \in Threads : call[t].httpHeaders # <<>> }

\* C12: every authenticated call produces its three headers by encoding
\* and then signing: the payload header is the encoding of the request
\* body, the signature header is the signature, under the secret key, of
\* the payload header's value and not of the body, and the API-key header
\* is the access key as it is.
C12_Claim ==
    \A t \in Threads :
        /\ tpc[t] # "crashed"
        /\ t \in Built =>
              LET enc == Base64Encode(call[t].params)
              IN  call[t].httpHeaders =
                      << HdrApiKey \o accessKey_,
                         HdrPayload \o enc,
                         HdrSignature \o getHmacSha384(secretKey_, enc, <<>>) >>

\* C17: a client built with an empty access key or an empty secret key
\* never builds the headers of an authenticated request and never sends
\* one.
C17_Claim ==
    (ctorKeys[1] = NoKey \/ ctorKeys[2] = NoKey) =>
        /\ Built = {}
        /\ posted = <<>>

----------------------------------------------------------------------------
(* Properties of successive authenticated calls, under SpecAuth *)

\* C13: the nonce of every authenticated request is numerically greater
\* than the nonce of the request before it.
C13_Claim ==
    \A i \in 2..Len(posted) : posted[i].nonce > posted[i - 1].nonce

\* C18: two requests to the same endpoint with the same arguments, signed
\* with the same key, whose payloads differ in the nonce only have different
\* signatures, and two successive ones always differ so.
C18_Claim ==
    \A i, j \in 1..Len(posted) :
        ( /\ i < j
          /\ posted[i].endpoint = posted[j].endpoint
          /\ posted[i].ids = posted[j].ids
          /\ posted[i].key = posted[j].key ) =>
            /\ posted[i].nonce # posted[j].nonce =>
                  posted[i].headers[3] # posted[j].headers[3]
            /\ j = i + 1 =>
                  /\ posted[i].nonce # posted[j].nonce
                  /\ posted[i].headers[3] # posted[j].headers[3]

----------------------------------------------------------------------------
(* Properties of two runs with the same request body, under SpecRuns *)

\* sub occurs in s
Occurs(sub, s) ==
    \E p \in 1..Len(s) - Len(sub) + 1 : SubSeq(s, p, p + Len(sub) - 1) = sub

\* C16: two requests with the same body and the same access key have the
\* same API-key header and the same payload header, whatever the secret
\* keys, and no header holds the secret key.
C16_Claim ==
    /\ \A i, j \in 1..Len(posted) :
          ( /\ posted[i].endpoint = posted[j].endpoint
            /\ posted[i].ids = posted[j].ids
            /\ posted[i].nonce = posted[j].nonce
            /\ posted[i].access = posted[j].access ) =>
              /\ posted[i].headers[1] = posted[j].headers[1]
              /\ posted[i].headers[2] = posted[j].headers[2]
    /\ \A i \in 1..Len(posted) :
          posted[i].key # NoKey =>
              \A h \in 1..3 : ~Occurs(posted[i].key, posted[i].headers[h])

----------------------------------------------------------------------------
(* Properties of concurrent authenticated calls, under SpecCalls *)

\* C14: each of two concurrent calls on a client whose keys do not change
\* sends the three headers it built and returns the status of its own
\* request.
C14_Claim ==
    /\ \A i \in 1..Len(posted) : posted[i].own
    /\ \A t \in Threads :
          (tpc[t] = "done" /\ call[t].status # -1) =>
              call[t].ret = call[t].status

----------------------------------------------------------------------------
(* Properties of calls made while setKeys runs, under SpecThreads *)

\* C15: every authenticated request, one that runs while setKeys executes
\* included, has read an access key and a secret key that belong to one pair
\* the client was given.
C15_Claim ==
    \A t \in Built : <<call[t].access, call[t].key>> \in installed

----------------------------------------------------------------------------
(* Properties of the client's two status codes, under SpecPublic *)

\* C21: once bfxApiStatusCode_ is not noError no step of the client makes
\* it noError again, and hasApiError() is true from then on; every request
\* made, through either handle, leaves its own status in curlStatusCode_.
C21_Sticky ==
    [][ /\ bfxApiStatusCode_ # noError =>
              (bfxApiStatusCode_' # noError /\ hasApiError')
        /\ lastGet' # lastGet => curlStatusCode_' = lastGet'.status
        /\ \A t \in Threads :
              (tpc[t] = "ready" /\ tpc'[t] = "performed") =>
                  curlStatusCode_' = call'[t].status ]_vars

\* a public endpoint rejected its argument, a later request through
\* curlGET_ succeeded, and hasApiError() is still true
C21_Witness ==
    /\ lastGet.api \in { badSymbol, badCurrency }
    /\ lastGet.status = CURLE_OK
    /\ curlStatusCode_ = CURLE_OK
    /\ bfxApiStatusCode_ = lastGet.api
    /\ hasApiError

----------------------------------------------------------------------------
(* Properties of calls with a rejected argument, under SpecPublic *)

\* the code newOrder or deposit returns for the arguments of the call c,
\* noError when they pass its checks
BadCode(c) ==
    CASE c.endpoint = "/order/new/" ->
            IF c.args[1] \notin symbols_ THEN badSymbol
            ELSE IF c.args[2] \notin types_ THEN badOrderType
            ELSE noError
      [] c.endpoint = "/deposit/new/" ->
            IF c.args[1] \notin methods_ THEN badDepositMethod
            ELSE IF c.args[2] \notin walletNames_ THEN badWalletType
            ELSE noError
      [] OTHER -> noError

\* the code a public endpoint stores for the argument of the call p,
\* noError when the argument is in its list
PubCode(p) ==
    CASE p.op = "getTicker" /\ p.arg \notin symbols_ -> badSymbol
      [] p.op = "getFundingBook" /\ p.arg \notin currencies_ -> badCurrency
      [] OTHER -> noError

\* C22: a call of newOrder or deposit with an argument outside its list
\* returns the code of that argument at once, with no nonce and no params
\* built and no request made, and changes nothing of the client or of the
\* caller's result string; a call of getTicker or getFundingBook with such
\* an argument stores the code in bfxApiStatusCode_ and changes nothing
\* else, result_ and curlStatusCode_ included.
C22_Rejected ==
    [][ /\ \A t \in Threads :
              ( /\ tpc[t] = "idle"
                /\ tpc'[t] # "idle"
                /\ BadCode(call'[t]) # noError ) =>
                  /\ tpc'[t] = "done"
                  /\ call'[t].ret = AsInt(BadCode(call'[t]))
                  /\ call'[t].nonce = -1
                  /\ call'[t].params = <<>>
                  /\ UNCHANGED <<accessKey_, secretKey_, curlPOST_,
                                 curlStatusCode_, bfxApiStatusCode_, handle,
                                 now, result, posted, got, pvars>>
        /\ (pub'.n # pub.n /\ PubCode(pub') # noError) =>
              /\ bfxApiStatusCode_' = PubCode(pub')
              /\ UNCHANGED <<result_, curlStatusCode_, lastGet, curlGET_,
                             symbols_, cpc, AuthSide>> ]_vars

\* getTicker has rejected a symbol after a response was received, which
\* result_ still holds, and deposit has then returned badDepositMethod
C22_Witness ==
    /\ pub.op = "getTicker"
    /\ pub.arg \notin symbols_
    /\ bfxApiStatusCode_ = badSymbol
    /\ result_ # <<>>
    /\ curlStatusCode_ = lastGet.status
    /\ tpc[1] = "done"
    /\ call[1].endpoint = "/deposit/new/"
    /\ call[1].ret = AsInt(badDepositMethod)
    /\ posted = <<>>

----------------------------------------------------------------------------
(* Properties of construction, under SpecCtor *)

\* the constructor's symbols request, the last one made, did not end with
\* CURLE_OK (a null curlGET_ makes none), or jsonStrToUset returned its
\* error
CtorFailed ==
    /\ cpc = "done"
    /\ lastGet.at = 0
    /\ lastGet.status # CURLE_OK \/ ret = jsonStrToUSetError

\* C23: when the symbols request or its decode has failed during
\* construction, symbols_ is empty and bfxApiStatusCode_ is noError after
\* the constructor, and from then on getTicker stores badSymbol and newOrder
\* returns badSymbol for every symbol, with no request made.
C23_Claim ==
    CtorFailed =>
        /\ symbols_ = {}
        /\ pub.n = 0 => bfxApiStatusCode_ = noError
        /\ pub.n > 0 => bfxApiStatusCode_ = badSymbol
        /\ tpc[1] \in {"idle", "done"}
        /\ tpc[1] = "done" => call[1].ret = AsInt(badSymbol)
        /\ posted = <<>>

----------------------------------------------------------------------------
(* Properties of the two result strings, under SpecResults *)

\* C24: after a public request strResponse() is the body of the latest
\* public response and nothing of the earlier ones, and the result string
\* the caller passes to every authenticated call is the bodies of all their
\* responses, one after the other in the order of the calls.
C24_Claim ==
    /\ lastGet.at > 0 => strResponse = lastGet.body
    /\ result[1] = got[1]

====
